---- MODULE Spec2Model ----
(***************************************************************************)
(* FIFO tax-lot engine of the portfolio tracker: the stock_lots,           *)
(* stock_lot_sales, option_reservations and stock_transactions tables and  *)
(* the repository operations that read and write them                      *)
(* (repos/stock_lots_repo.py, repos/stock_repo.py, db.py).                 *)
(*                                                                         *)
(* Share quantities are small integers; dates are day numbers.  Every      *)
(* execute_insert / execute_update of db.py opens its own connection and   *)
(* commits on its own, so one SQL statement is the unit of atomicity.      *)
(***************************************************************************)
EXTENDS Integers, Sequences, FiniteSets, TLC

\* ---------------------------------------------------------------- bounds
MaxLots == 2            \* rows in stock_lots
MaxTx == 3              \* ids handed out by stock_transactions
MaxOptions == 2         \* rows ever inserted into options
MaxSales == 3           \* rows in stock_lot_sales where failed sales could add rows for ever

StockIds == {1, 2}
OptionIds == {1, 2}
OpenOptionIds == {1}                    \* the application with one covered call open
Dates == {1, 2}
FormDates == {1}                        \* the application with every trade entered for one day
Seller == "seller"                          \* the session that sells
Reserver == "reserver"
Buyers == {"buyer1", "buyer2"}
Sellers == {"seller1", "seller2"}       \* two sessions selling at the same time          \* two sessions that enter purchases                        \* the session that writes covered calls
ContendedStockIds == {1}                \* the security the concurrent callers work on
DirectTxId == 0                         \* transaction id passed by a direct repository call
FormQuantities == {1, 2}                \* the entry form lets through quantities >= 1
FormSaleQuantities == {1, 2, 3}
AnyQuantities == {0 - 1, 0, 1, 2}       \* the repository itself takes any integer
AnySaleQuantities == {0 - 1, 0, 1, 2, 3}

\* Money is fixed-point: USD in cents, the USD/PLN rate in hundredths, PLN in
\* 1/10000, the tax in 1/1000000 PLN
PurchaseQuantities == {100}
SaleQuantities == {60, 100}
PurchasePricesUsd == {5000, 6000}       \* $50.00, $60.00
SalePricesUsd == {5000, 6000}
PurchaseRates == {400, 410}             \* 4.00, 4.10
SaleRates == {410}
RerateRates == {400, 420}               \* new_usd_pln_rate of update_lot_rates
FormSaleDates == {20231229}             \* sale dates as yyyymmdd
SaleDates == {20231229, 20240102}
Years == {2023, 2024}
TaxPurchaseQuantities == {10}           \* small lots: the totals of a year stay in range
TaxSaleQuantities == {6, 10}
TaxSalePricesUsd == {5500}              \* a gain on a lot bought at 5000, a loss at 6000                      \* 4.10
\* Exchange rates: days are numbered, d % 7 is the weekday (5, 6: the weekend)
InitDate == 13                          \* the day the database was initialised, a Sunday
SampleRate == 400                       \* the 4.0 sample row of that day
RequestDates == {11, 12, 13, 15}        \* a Friday, a Saturday, a Sunday, a Tuesday
PublishDates == {1, 10, 11}             \* days for which the NBP may publish a table
FaultDates == {10, 11}                  \* days whose request may fail during a walk
MaxDays == 10                           \* max_days of the backward walk
ExactOutcomes == {"answer", "status", "error"}  \* 200 or 404, another status, an exception
OptionTypes == {"CALL", "PUT"}
ContractSize == 100                     \* shares behind one option contract
AnyPricesUsd == {0 - 100, 0, 5000}      \* the repository itself takes any price

VARIABLES
    stock_lots,             \* sequence of lot rows, id = position (AUTOINCREMENT)
    stock_lot_sales,        \* sequence of sale allocation rows
    option_reservations,    \* sequence of reservation rows
    stock_transactions,     \* set of live transaction rows
    tx_seq,                 \* last id handed out by stock_transactions
    stocks,                 \* stock id -> stored aggregate quantity
    last,                   \* the call that ran last and how it ended
    workers,                \* concurrent callers: position and locals of each
    lot_prices,             \* the price columns of stock_lots, one row per lot
    sale_values,            \* the money columns of stock_lot_sales, one row per allocation
    options,                \* sequence of option rows, id = position (AUTOINCREMENT)
    exchange_rates,         \* the rate cache: date -> rate of the USD/PLN rows
    published               \* the dates for which the NBP has published a table

\* The price columns are kept apart from the quantity columns: the operations
\* on quantities do not read them
priceVars == <<lot_prices, sale_values>>

rateVars == <<exchange_rates, published>>

vars == <<stock_lots, stock_lot_sales, option_reservations,
          stock_transactions, tx_seq, stocks, last, workers,
          priceVars, options, rateVars>>

\* ---------------------------------------------------------------- helpers
RECURSIVE SeqSum(_)
SeqSum(s) == IF s = <<>> THEN 0 ELSE Head(s) + SeqSum(Tail(s))

Min(a, b) == IF a <= b THEN a ELSE b

\* SUM(reserved_quantity) of the reservation rows joined to one lot
ReservedOn(res, lot_id) ==
    SeqSum([i \in 1 .. Len(res) |->
        IF res[i].lot_id = lot_id THEN res[i].reserved_quantity ELSE 0])

\* SUM(quantity_sold) of the allocation rows of one lot
SoldFrom(sales, lot_id) ==
    SeqSum([i \in 1 .. Len(sales) |->
        IF sales[i].lot_id = lot_id THEN sales[i].quantity_sold ELSE 0])

\* calculated_status of get_all_lots
CalculatedStatus(lot) ==
    IF lot.remaining_quantity = 0 THEN "CLOSED"
    ELSE IF lot.remaining_quantity < lot.quantity THEN "PARTIAL"
    ELSE "OPEN"

\* ------------------------------------------------ create_lot_from_purchase
NextLotNumber(lots, stock_id) ==
    LET nums == {lots[i].lot_number : i \in {j \in DOMAIN lots : lots[j].stock_id = stock_id}}
    IN  IF nums = {} THEN 1 ELSE (CHOOSE m \in nums : \A n \in nums : n <= m) + 1

create_lot_from_purchase(lots, stock_id, transaction_id, quantity, purchase_date) ==
    Append(lots, [id |-> Len(lots) + 1,
                  stock_id |-> stock_id,
                  transaction_id |-> transaction_id,
                  lot_number |-> NextLotNumber(lots, stock_id),
                  purchase_date |-> purchase_date,
                  quantity |-> quantity,
                  remaining_quantity |-> quantity,
                  status |-> "OPEN"])

\* --------------------------------------------------------- process_sale_fifo
\* a slip: ORDER BY lot_number alone
SaleOrderByLotNumber(lots, a, b) == lots[a].lot_number < lots[b].lot_number

\* ORDER BY purchase_date, lot_number of the lots query
SaleOrderBefore(lots, a, b) ==
    \/ lots[a].purchase_date < lots[b].purchase_date
    \/ /\ lots[a].purchase_date = lots[b].purchase_date
       /\ lots[a].lot_number < lots[b].lot_number

\* WHERE stock_id = ? AND remaining_quantity > 0 ORDER BY purchase_date, lot_number
SaleAvailableLots(lots, stock_id) ==
    LET S == {i \in DOMAIN lots : lots[i].stock_id = stock_id /\ lots[i].remaining_quantity > 0}
        ord == [i \in 1 .. Cardinality(S) |->
                  CHOOSE a \in S : Cardinality({b \in S : SaleOrderBefore(lots, b, a)}) = i - 1]
    IN  [i \in 1 .. Len(ord) |-> lots[ord[i]]]

QuantityFromLot(remaining_to_sell, lot_remaining) == Min(remaining_to_sell, lot_remaining)

\* a slip: the lot is written back as sold out whatever was taken from it
NewRemainingSoldOut(lot_remaining, quantity_from_lot) == 0

NewRemaining(lot_remaining, quantity_from_lot) == lot_remaining - quantity_from_lot

NewStatus(new_remaining) == IF new_remaining = 0 THEN "CLOSED" ELSE "PARTIAL"

NoFault == 0

\* The for loop.  available_lots are the rows as read; lots and sales are the
\* tables as written so far.  stmt counts the INSERT/UPDATE statements already
\* executed; statement number fail_at raises a database error (NoFault: none).
RECURSIVE FifoLoop(_, _, _, _, _, _, _, _)
FifoLoop(lots, sales, available_lots, i, remaining_to_sell, sale_transaction_id, stmt, fail_at) ==
    IF i > Len(available_lots) \/ remaining_to_sell <= 0
    THEN [result |-> "ok", lots |-> lots, sales |-> sales]
    ELSE
      LET lot == available_lots[i]
          lot_remaining == lot.remaining_quantity
          quantity_from_lot == QuantityFromLot(remaining_to_sell, lot_remaining)
          sales2 == Append(sales, [lot_id |-> lot.id,
                                   sale_transaction_id |-> sale_transaction_id,
                                   quantity_sold |-> quantity_from_lot])
          new_remaining == NewRemaining(lot_remaining, quantity_from_lot)
          lots2 == [lots EXCEPT ![lot.id].remaining_quantity = new_remaining,
                                ![lot.id].status = NewStatus(new_remaining)]
      IN  IF fail_at = stmt + 1
          THEN [result |-> "DatabaseError", lots |-> lots, sales |-> sales]
          ELSE IF fail_at = stmt + 2
          THEN [result |-> "DatabaseError", lots |-> lots, sales |-> sales2]
          ELSE FifoLoop(lots2, sales2, available_lots, i + 1,
                        remaining_to_sell - quantity_from_lot,
                        sale_transaction_id, stmt + 2, fail_at)

process_sale_fifo(lots, sales, stock_id, sale_transaction_id, quantity_to_sell, fail_at) ==
    LET available_lots == SaleAvailableLots(lots, stock_id)
        total_available ==
            SeqSum([i \in 1 .. Len(available_lots) |-> available_lots[i].remaining_quantity])
    IN  IF available_lots = <<>>
        THEN [result |-> "ValueError", lots |-> lots, sales |-> sales]
        ELSE IF total_available < quantity_to_sell
        THEN [result |-> "ValueError", lots |-> lots, sales |-> sales]
        ELSE FifoLoop(lots, sales, available_lots, 1, quantity_to_sell,
                      sale_transaction_id, 0, fail_at)

\* ------------------------------------------------- reserve_shares_for_option
\* ORDER BY sl.purchase_date, sl.lot_number of the reservation query
ReserveOrderBefore(lots, a, b) ==
    \/ lots[a].purchase_date < lots[b].purchase_date
    \/ /\ lots[a].purchase_date = lots[b].purchase_date
       /\ lots[a].lot_number < lots[b].lot_number

\* The lots query with its LEFT JOIN, GROUP BY and HAVING: rows carry already_reserved
ReserveAvailableLots(lots, res, stock_id) ==
    LET S == {i \in DOMAIN lots :
                /\ lots[i].stock_id = stock_id
                /\ lots[i].remaining_quantity > 0
                /\ lots[i].remaining_quantity - ReservedOn(res, i) > 0}
        ord == [i \in 1 .. Cardinality(S) |->
                  CHOOSE a \in S : Cardinality({b \in S : ReserveOrderBefore(lots, b, a)}) = i - 1]
    IN  [i \in 1 .. Len(ord) |->
            [id |-> ord[i],
             remaining_quantity |-> lots[ord[i]].remaining_quantity,
             already_reserved |-> ReservedOn(res, ord[i])]]

\* The for loop: one INSERT per lot taken from.  The INSERT of iteration
\* fail_at raises a database error (NoFault: none); the rows inserted before
\* it stay, each having been committed on its own connection.
RECURSIVE ReserveLoop(_, _, _, _, _, _)
ReserveLoop(res, available_lots, i, remaining_to_reserve, option_id, fail_at) ==
    IF i > Len(available_lots) \/ remaining_to_reserve <= 0
    THEN [result |-> "ok", reservations |-> res]
    ELSE IF fail_at = i
    THEN [result |-> "DatabaseError", reservations |-> res]
    ELSE
      LET lot == available_lots[i]
          available_in_lot == lot.remaining_quantity - lot.already_reserved
          quantity_to_reserve == Min(remaining_to_reserve, available_in_lot)
      IN  ReserveLoop(Append(res, [option_id |-> option_id,
                                   lot_id |-> lot.id,
                                   reserved_quantity |-> quantity_to_reserve]),
                      available_lots, i + 1,
                      remaining_to_reserve - quantity_to_reserve, option_id, fail_at)

reserve_shares_for_option(lots, res, option_id, stock_id, shares_needed, fail_at) ==
    LET available_lots == ReserveAvailableLots(lots, res, stock_id)
        total_available ==
            SeqSum([i \in 1 .. Len(available_lots) |->
                available_lots[i].remaining_quantity - available_lots[i].already_reserved])
    IN  IF available_lots = <<>>
        THEN [result |-> "ValueError", reservations |-> res]
        ELSE IF total_available < shares_needed
        THEN [result |-> "ValueError", reservations |-> res]
        ELSE ReserveLoop(res, available_lots, 1, shares_needed, option_id, fail_at)

\* ------------------------------------------- check_shares_available_for_sale
\* available_for_sale of one row of the check query
AvailableForSale(lots, res, lot_id) ==
    lots[lot_id].remaining_quantity - ReservedOn(res, lot_id)

check_shares_available_for_sale(lots, res, stock_id, shares_to_sell) ==
    LET S == {i \in DOMAIN lots : lots[i].stock_id = stock_id /\ lots[i].remaining_quantity > 0}
        total_available ==
            SeqSum([i \in 1 .. Len(lots) |->
                IF i \in S /\ AvailableForSale(lots, res, i) > 0
                THEN AvailableForSale(lots, res, i) ELSE 0])
    IN  [can_sell |-> total_available >= shares_to_sell,
         available_shares |-> total_available]

\* ------------------------------------------------------------ get_fifo_preview
\* a slip: ORDER BY lot_number alone
PreviewOrderByLotNumber(lots, a, b) == lots[a].lot_number < lots[b].lot_number

\* ORDER BY purchase_date, lot_number of the preview query
PreviewOrderBefore(lots, a, b) ==
    \/ lots[a].purchase_date < lots[b].purchase_date
    \/ /\ lots[a].purchase_date = lots[b].purchase_date
       /\ lots[a].lot_number < lots[b].lot_number

PreviewLots(lots, stock_id) ==
    LET S == {i \in DOMAIN lots : lots[i].stock_id = stock_id /\ lots[i].remaining_quantity > 0}
        ord == [i \in 1 .. Cardinality(S) |->
                  CHOOSE a \in S : Cardinality({b \in S : PreviewOrderBefore(lots, b, a)}) = i - 1]
    IN  [i \in 1 .. Len(ord) |-> lots[ord[i]]]

RECURSIVE PreviewLoop(_, _, _, _)
PreviewLoop(preview, lots, i, remaining_to_sell) ==
    IF i > Len(lots) \/ remaining_to_sell <= 0
    THEN preview
    ELSE
      LET lot == lots[i]
          quantity_from_lot == Min(remaining_to_sell, lot.remaining_quantity)
      IN  PreviewLoop(Append(preview,
                             [lot_id |-> lot.id,
                              quantity_to_sell |-> quantity_from_lot,
                              remaining_after_sale |-> lot.remaining_quantity - quantity_from_lot]),
                      lots, i + 1, remaining_to_sell - quantity_from_lot)

get_fifo_preview(lots, stock_id, quantity_to_sell) ==
    PreviewLoop(<<>>, PreviewLots(lots, stock_id), 1, quantity_to_sell)

\* ------------------------------------------------------------- valuation
Max(a, b) == IF a >= b THEN a ELSE b

\* the 0.19 of the tax line, in percent
TaxRatePercent == 19

\* purchase_price_pln of create_lot_from_purchase
PurchasePricePln(price_usd, usd_pln_rate) == price_usd * usd_pln_rate

\* sale_price_pln of process_sale_fifo
SalePricePln(sale_price_usd, usd_pln_rate) == sale_price_usd * usd_pln_rate

\* a slip: the difference per share is not multiplied by the quantity
GainLossUsdPerShare(sale_price_usd, purchase_price_usd, quantity_from_lot) == sale_price_usd - purchase_price_usd

GainLossUsd(sale_price_usd, purchase_price_usd, quantity_from_lot) ==
    (sale_price_usd - purchase_price_usd) * quantity_from_lot

GainLossPln(sale_price_pln, purchase_price_pln, quantity_from_lot) ==
    (sale_price_pln - purchase_price_pln) * quantity_from_lot

\* a slip: the tax of a loss is not floored
TaxDuePlnUnfloored(gain_loss_pln) == gain_loss_pln * TaxRatePercent

TaxDuePln(gain_loss_pln) == Max(0, gain_loss_pln * TaxRatePercent)

\* The money columns of the allocation rows a sale has inserted (new_sales),
\* each valued against the prices of the lot it was taken from
SaleValues(new_sales, prices, sale_price_usd, usd_pln_rate, sale_date) ==
    [k \in 1 .. Len(new_sales) |->
        LET purchase_price_usd == prices[new_sales[k].lot_id].purchase_price_usd
            purchase_price_pln == prices[new_sales[k].lot_id].purchase_price_pln
            quantity_from_lot == new_sales[k].quantity_sold
            gain_loss_pln == GainLossPln(SalePricePln(sale_price_usd, usd_pln_rate),
                                         purchase_price_pln, quantity_from_lot)
        IN  [gain_loss_usd |-> GainLossUsd(sale_price_usd, purchase_price_usd,
                                           quantity_from_lot),
             gain_loss_pln |-> gain_loss_pln,
             tax_due_pln |-> TaxDuePln(gain_loss_pln),
             sale_price_pln |-> SalePricePln(sale_price_usd, usd_pln_rate),
             sale_date |-> sale_date]]

\* update_lot_rates on the price columns (the commission columns are not kept):
\* the PLN price of the lot is recomputed, no allocation row is touched
update_lot_rates(prices, lot_id, new_usd_pln_rate) ==
    IF lot_id \notin DOMAIN prices THEN [result |-> FALSE, prices |-> prices]
    ELSE [result |-> TRUE,
          prices |-> [prices EXCEPT ![lot_id] =
                        [purchase_price_usd |-> @.purchase_price_usd,
                         usd_pln_rate |-> new_usd_pln_rate,
                         purchase_price_pln |->
                             PurchasePricePln(@.purchase_price_usd, new_usd_pln_rate)]]]

\* strftime('%Y', sale_date)
Year(sale_date) == sale_date \div 10000

\* SUM over no row
Null == "NULL"

\* SUM(column) of SQLite
Sum(column) == IF Len(column) = 0 THEN Null ELSE SeqSum(column)

\* a slip: the CASE of a total lets every value through
AnySign(gain_loss_pln) == gain_loss_pln

\* CASE WHEN gain_loss_pln > 0 THEN gain_loss_pln ELSE 0 END
PositiveOnly(gain_loss_pln) == IF gain_loss_pln > 0 THEN gain_loss_pln ELSE 0

\* CASE WHEN gain_loss_pln < 0 THEN gain_loss_pln ELSE 0 END
NegativeOnly(gain_loss_pln) == IF gain_loss_pln < 0 THEN gain_loss_pln ELSE 0

\* the rows of the WHERE clause: positions of the allocations sold in the year
RECURSIVE RowsOfYear(_, _, _)
RowsOfYear(values, year, k) ==
    IF k > Len(values) THEN <<>>
    ELSE IF Year(values[k].sale_date) = year
         THEN <<k>> \o RowsOfYear(values, year, k + 1)
         ELSE RowsOfYear(values, year, k + 1)

\* get_tax_summary_by_year (without its avg_usd_rate column)
get_tax_summary_by_year(sales, values, year) ==
    LET rows == RowsOfYear(values, year, 1)
    IN  [total_sales |-> Len(rows),
         total_shares_sold |-> Sum([i \in DOMAIN rows |-> sales[rows[i]].quantity_sold]),
         total_gain_loss_pln |-> Sum([i \in DOMAIN rows |-> values[rows[i]].gain_loss_pln]),
         total_gains_pln |->
             Sum([i \in DOMAIN rows |-> PositiveOnly(values[rows[i]].gain_loss_pln)]),
         total_losses_pln |->
             Sum([i \in DOMAIN rows |-> NegativeOnly(values[rows[i]].gain_loss_pln)]),
         total_tax_due_pln |-> Sum([i \in DOMAIN rows |-> values[rows[i]].tax_due_pln])]

\* ------------------------------------------------- StockRepository (stock_repo.py)
\* The loop of _update_stock_position over the transactions of one stock
RECURSIVE TotalQuantity(_)
TotalQuantity(transactions) ==
    IF transactions = {} THEN 0
    ELSE LET transaction == CHOOSE x \in transactions : TRUE
             rest == TotalQuantity(transactions \ {transaction})
         IN  IF transaction.transaction_type = "BUY" THEN rest + transaction.quantity
             ELSE IF transaction.transaction_type = "SELL" THEN rest - transaction.quantity
             ELSE rest

update_stock_position(stks, transactions, stock_id) ==
    [stks EXCEPT ![stock_id] =
        TotalQuantity({x \in transactions : x.stock_id = stock_id})]

Transaction(id, stock_id, transaction_type, quantity) ==
    [id |-> id, stock_id |-> stock_id,
     transaction_type |-> transaction_type, quantity |-> quantity]

\* a slip: the failed sale's transaction row is left in place
DeleteTransactionSkipped(transactions, transaction_id) == transactions

\* DELETE FROM stock_transactions WHERE id = ?
DeleteTransaction(transactions, transaction_id) ==
    {x \in transactions : x.id # transaction_id}

\* a slip: the reservation check runs only after the FIFO walk
BlockedSaleAfterWalk(lots, sales, sale) == [lots |-> sale.lots, sales |-> sale.sales]

\* The tables a sale blocked by the reservation check leaves behind: the check
\* runs, and raises, before process_sale_fifo is called
BlockedSale(lots, sales, sale) == [lots |-> lots, sales |-> sales]

\* add_transaction: the outcome of the whole handler.  fail_at is the statement
\* of the FIFO walk at which the database raises (NoFault: none).
add_transaction(lots, sales, res, transactions, seq, stks, stock_id, transaction_type, quantity, transaction_date, fail_at) ==
    LET transaction_id == seq + 1
        inserted == transactions \cup
                      {Transaction(transaction_id, stock_id, transaction_type, quantity)}
        unchanged == [result |-> "ok", lots |-> lots, sales |-> sales,
                      transactions |-> inserted, tx_seq |-> transaction_id,
                      stocks |-> update_stock_position(stks, inserted, stock_id)]
    IN  IF transaction_type = "BUY"
        THEN [unchanged EXCEPT
                !.lots = create_lot_from_purchase(lots, stock_id, transaction_id,
                                                  quantity, transaction_date)]
        ELSE IF transaction_type = "SELL"
        THEN
          LET availability == check_shares_available_for_sale(lots, res, stock_id, quantity)
              sale == process_sale_fifo(lots, sales, stock_id, transaction_id,
                                        quantity, fail_at)
          IN  IF ~availability.can_sell
              THEN \* the transaction row is deleted again, the position is not recomputed
                   [result |-> "ValueError",
                    lots |-> BlockedSale(lots, sales, sale).lots,
                    sales |-> BlockedSale(lots, sales, sale).sales,
                    transactions |-> DeleteTransaction(inserted, transaction_id),
                    tx_seq |-> transaction_id,
                    stocks |-> stks]
              ELSE IF sale.result # "ok"
              THEN [result |-> sale.result, lots |-> sale.lots, sales |-> sale.sales,
                    transactions |-> DeleteTransaction(inserted, transaction_id),
                    tx_seq |-> transaction_id,
                    stocks |-> stks]
              ELSE [unchanged EXCEPT !.lots = sale.lots, !.sales = sale.sales]
        ELSE unchanged

\* delete_transaction: the row is deleted and the position recomputed from the
\* rows that are left; no statement touches stock_lots or stock_lot_sales
delete_transaction(transactions, stks, transaction_id) ==
    LET transaction_info == {x \in transactions : x.id = transaction_id}
        stock_id == (CHOOSE x \in transaction_info : TRUE).stock_id
        deleted == DeleteTransaction(transactions, transaction_id)
    IN  IF transaction_info = {}
        THEN [result |-> FALSE, transactions |-> transactions, stocks |-> stks]
        ELSE [result |-> TRUE, transactions |-> deleted,
              stocks |-> update_stock_position(stks, deleted, stock_id)]

\* ------------------------------------------------- NBPService (services/nbp.py)
\* None: no rate
None == 0

\* the mid rate the NBP table of a day carries
SourceRate(d) == 400 + d

\* a slip: no day is taken for a Saturday or Sunday
NeverWeekend(d) == FALSE

\* current_date.weekday() >= 5
Weekend(d) == d % 7 >= 5

\* a slip: the cache is never consulted
CachedRateIgnored(cache, date_value) == None

\* _get_cached_rate
get_cached_rate(cache, date_value) ==
    IF date_value \in DOMAIN cache THEN cache[date_value] ELSE None

\* a slip: the fetched rate is not written to the cache
CacheRateSkipped(cache, date_value, rate) == cache

\* _cache_rate: INSERT OR REPLACE under UNIQUE(currency_pair, date)
CacheRate(cache, date_value, rate) ==
    [x \in DOMAIN cache \cup {date_value} |-> IF x = date_value THEN rate ELSE cache[x]]

\* _get_last_available_rate: the newest row dated at or before date_value
get_last_available_rate(cache, date_value) ==
    LET earlier == {x \in DOMAIN cache : x <= date_value}
    IN  IF earlier = {} THEN None
        ELSE cache[CHOOSE x \in earlier : \A y \in earlier : y <= x]

\* a slip: a default rate stands in when the walk finds nothing
WalkGivesUpWithDefault(cache, contacted) ==
    [result |-> SampleRate,
     cache |-> CacheRate(cache, InitDate, SampleRate), contacted |-> contacted, fetched |-> {}]

\* the return None that ends the backward walk
WalkGivesUp(cache, contacted) ==
    [result |-> None, cache |-> cache, contacted |-> contacted, fetched |-> {}]

\* _get_previous_working_day_rate with days_left iterations to go.  pub: the
\* days the source has a table for; down: the days whose request fails
RECURSIVE previous_working_day_rate(_, _, _, _, _, _)
previous_working_day_rate(cache, pub, date_value, days_left, down, contacted) ==
    IF days_left = 0 THEN WalkGivesUp(cache, contacted)
    ELSE
      LET current_date == date_value - 1
      IN  IF Weekend(current_date)
          THEN previous_working_day_rate(cache, pub, current_date, days_left - 1,
                                         down, contacted)
          ELSE IF get_cached_rate(cache, current_date) # None
          THEN [result |-> get_cached_rate(cache, current_date), cache |-> cache,
                contacted |-> contacted, fetched |-> {}]
          ELSE IF current_date \notin down /\ current_date \in pub
          THEN [result |-> SourceRate(current_date),
                cache |-> CacheRate(cache, current_date, SourceRate(current_date)),
                contacted |-> contacted \cup {current_date},
                fetched |-> {current_date}]
          ELSE previous_working_day_rate(cache, pub, current_date, days_left - 1,
                                         down, contacted \cup {current_date})

\* a slip: the rate the walk found is also cached under the day asked for
WalkResultBackfilled(r, date_value) ==
    [r EXCEPT !.cache = IF r.result # None THEN CacheRate(r.cache, date_value, r.result)
                        ELSE r.cache]

\* return self._get_previous_working_day_rate(...): the walk's answer as it is
WalkResult(r, date_value) == r

\* get_exchange_rate.  exact: how the request for date_value itself ends
get_exchange_rate(cache, pub, date_value, exact, down) ==
    IF get_cached_rate(cache, date_value) # None
    THEN [result |-> get_cached_rate(cache, date_value), cache |-> cache,
          contacted |-> {}, fetched |-> {}]
    ELSE IF exact = "answer" /\ date_value \in pub
    THEN [result |-> SourceRate(date_value),
          cache |-> CacheRate(cache, date_value, SourceRate(date_value)),
          contacted |-> {date_value}, fetched |-> {date_value}]
    ELSE IF exact = "answer"
    THEN WalkResult(previous_working_day_rate(cache, pub, date_value, MaxDays, down,
                                              {date_value}),
                    date_value)
    ELSE IF exact = "status"
    THEN [result |-> None, cache |-> cache, contacted |-> {date_value}, fetched |-> {}]
    ELSE [result |-> get_last_available_rate(cache, date_value), cache |-> cache,
          contacted |-> {date_value}, fetched |-> {}]

\* ------------------------------------------- OptionsRepository (options_repo.py)
\* add_option: a covered call needs quantity * 100 shares in stocks.quantity
add_option(opts, stks, stock_id, option_type, quantity) ==
    IF option_type = "CALL" /\ stks[stock_id] < quantity * ContractSize
    THEN [result |-> "ValueError", options |-> opts]
    ELSE [result |-> "ok",
          options |-> Append(opts, [id |-> Len(opts) + 1, stock_id |-> stock_id,
                                    option_type |-> option_type, quantity |-> quantity,
                                    status |-> "OPEN", live |-> TRUE])]

\* the row an UPDATE ... WHERE id = ? or a DELETE ... WHERE id = ? finds
OptionExists(opts, option_id) == option_id \in DOMAIN opts /\ opts[option_id].live

\* UPDATE options SET status = ... WHERE id = ?: buyback_option and expire_option
close_option(opts, option_id, status) ==
    IF OptionExists(opts, option_id)
    THEN [result |-> TRUE, options |-> [opts EXCEPT ![option_id].status = status]]
    ELSE [result |-> FALSE, options |-> opts]

\* DELETE FROM options WHERE id = ?; the id is never handed out again
delete_option(opts, option_id) ==
    IF OptionExists(opts, option_id)
    THEN [result |-> TRUE, options |-> [opts EXCEPT ![option_id].live = FALSE]]
    ELSE [result |-> FALSE, options |-> opts]

\* ---------------------------------------------------------------- state
\* last: the call the caller made last, its arguments and result, and the preview
\* the caller holds when the call is the sale of what was just previewed
NoCall == [op |-> "none", stock_id |-> 0, quantity |-> 0, ref |-> 0,
           result |-> "ok", plan |-> <<>>, previewed |-> FALSE]

Call(op, stock_id, quantity, ref, result) ==
    [op |-> op, stock_id |-> stock_id, quantity |-> quantity, ref |-> ref,
     result |-> result, plan |-> <<>>, previewed |-> FALSE]

\* the caller has just previewed exactly this sale
JustPreviewed(stock_id, quantity) ==
    last.op = "preview" /\ last.stock_id = stock_id /\ last.quantity = quantity

SaleCall(op, stock_id, quantity, ref, result) ==
    [Call(op, stock_id, quantity, ref, result) EXCEPT
        !.plan = IF JustPreviewed(stock_id, quantity) THEN last.plan ELSE <<>>,
        !.previewed = JustPreviewed(stock_id, quantity)]

Init ==
    /\ stock_lots = <<>>
    /\ stock_lot_sales = <<>>
    /\ option_reservations = <<>>
    /\ stock_transactions = {}
    /\ tx_seq = 0
    /\ stocks = [s \in StockIds |-> 0]
    /\ last = NoCall
    /\ workers = <<>>
    /\ lot_prices = <<>>
    /\ sale_values = <<>>
    /\ options = <<>>
    /\ exchange_rates = (InitDate :> SampleRate)
    /\ published = {}

\* A direct call of StockLotsRepository.create_lot_from_purchase
CreateLot(stock_id, quantity, purchase_date) ==
    /\ Len(stock_lots) < MaxLots
    /\ stock_lots' = create_lot_from_purchase(stock_lots, stock_id, DirectTxId,
                                              quantity, purchase_date)
    /\ last' = Call("create_lot", stock_id, quantity, Len(stock_lots) + 1, "ok")
    /\ UNCHANGED <<stock_lot_sales, option_reservations, stock_transactions,
                   tx_seq, stocks, workers,
                   priceVars, options, rateVars>>

\* A direct call of StockLotsRepository.process_sale_fifo
ProcessSale(stock_id, quantity_to_sell) ==
    LET r == process_sale_fifo(stock_lots, stock_lot_sales, stock_id, DirectTxId,
                               quantity_to_sell, NoFault)
    IN  /\ stock_lots' = r.lots
        /\ stock_lot_sales' = r.sales
        /\ last' = SaleCall("process_sale", stock_id, quantity_to_sell, DirectTxId, r.result)
        /\ UNCHANGED <<option_reservations, stock_transactions, tx_seq, stocks, workers,
                   priceVars, options, rateVars>>

\* A call of StockLotsRepository.get_fifo_preview: reads, writes nothing
Preview(stock_id, quantity_to_sell) ==
    /\ last' = [Call("preview", stock_id, quantity_to_sell, 0, "ok") EXCEPT
                  !.plan = get_fifo_preview(stock_lots, stock_id, quantity_to_sell)]
    /\ UNCHANGED <<stock_lots, stock_lot_sales, option_reservations,
                   stock_transactions, tx_seq, stocks, workers,
                   priceVars, options, rateVars>>

\* A call of StockLotsRepository.reserve_shares_for_option
Reserve(option_id, stock_id, shares_needed) ==
    LET r == reserve_shares_for_option(stock_lots, option_reservations,
                                       option_id, stock_id, shares_needed, NoFault)
    IN  /\ option_reservations' = r.reservations
        /\ last' = Call("reserve", stock_id, shares_needed, option_id, r.result)
        /\ UNCHANGED <<stock_lots, stock_lot_sales, stock_transactions,
                       tx_seq, stocks, workers,
                   priceVars, options, rateVars>>

\* A call of reserve_shares_for_option during which the INSERT of iteration
\* fail_at raises
ReserveFault(option_id, stock_id, shares_needed, fail_at) ==
    LET r == reserve_shares_for_option(stock_lots, option_reservations,
                                       option_id, stock_id, shares_needed, fail_at)
    IN  /\ r.result = "DatabaseError"
        /\ option_reservations' = r.reservations
        /\ last' = Call("reserve", stock_id, shares_needed, option_id, r.result)
        /\ UNCHANGED <<stock_lots, stock_lot_sales, stock_transactions,
                       tx_seq, stocks, workers, priceVars, options, rateVars>>

\* A call of StockRepository.add_transaction
AddTransaction(stock_id, transaction_type, quantity, transaction_date) ==
    LET r == add_transaction(stock_lots, stock_lot_sales, option_reservations,
                             stock_transactions, tx_seq, stocks,
                             stock_id, transaction_type, quantity, transaction_date, NoFault)
    IN  /\ tx_seq < MaxTx
        /\ Len(r.lots) <= MaxLots
        /\ stock_lots' = r.lots
        /\ stock_lot_sales' = r.sales
        /\ stock_transactions' = r.transactions
        /\ tx_seq' = r.tx_seq
        /\ stocks' = r.stocks
        /\ last' = SaleCall(transaction_type, stock_id, quantity, r.tx_seq, r.result)
        /\ UNCHANGED <<option_reservations, workers,
                   priceVars, options, rateVars>>

Buy(stock_id, quantity, transaction_date) ==
    AddTransaction(stock_id, "BUY", quantity, transaction_date)

Sell(stock_id, quantity, transaction_date) ==
    AddTransaction(stock_id, "SELL", quantity, transaction_date)

\* A call of StockRepository.delete_transaction
DeleteTransactionCall(transaction_id) ==
    LET r == delete_transaction(stock_transactions, stocks, transaction_id)
    IN  /\ stock_transactions' = r.transactions
        /\ stocks' = r.stocks
        /\ last' = Call("delete_transaction", 0, 0, transaction_id, r.result)
        /\ UNCHANGED <<stock_lots, stock_lot_sales, option_reservations, tx_seq, workers,
                       priceVars, options, rateVars>>

\* A direct call of process_sale_fifo during which statement fail_at raises
\* (sqlite3.OperationalError: the database is locked, the disk is full, ...)
ProcessSaleFault(stock_id, quantity_to_sell, fail_at) ==
    LET r == process_sale_fifo(stock_lots, stock_lot_sales, stock_id, DirectTxId,
                               quantity_to_sell, fail_at)
    IN  /\ r.result = "DatabaseError"
        /\ Len(r.sales) <= MaxSales
        /\ stock_lots' = r.lots
        /\ stock_lot_sales' = r.sales
        /\ last' = SaleCall("process_sale", stock_id, quantity_to_sell, DirectTxId, r.result)
        /\ UNCHANGED <<option_reservations, stock_transactions, tx_seq, stocks, workers,
                   priceVars, options, rateVars>>

\* A handled SELL during whose FIFO walk statement fail_at raises: the handler
\* deletes the transaction row and re-raises
SellFault(stock_id, quantity, transaction_date, fail_at) ==
    LET r == add_transaction(stock_lots, stock_lot_sales, option_reservations,
                             stock_transactions, tx_seq, stocks,
                             stock_id, "SELL", quantity, transaction_date, fail_at)
    IN  /\ tx_seq < MaxTx
        /\ r.result = "DatabaseError"
        /\ Len(r.sales) <= MaxSales
        /\ stock_lots' = r.lots
        /\ stock_lot_sales' = r.sales
        /\ stock_transactions' = r.transactions
        /\ tx_seq' = r.tx_seq
        /\ stocks' = r.stocks
        /\ last' = SaleCall("SELL", stock_id, quantity, r.tx_seq, r.result)
        /\ UNCHANGED <<option_reservations, workers, priceVars, options, rateVars>>

\* ------------------------------------------------------ concurrent callers
\* workers[w] is the call worker w is in the middle of: the rows it has read
\* (available_lots), the loop index, what is left to sell or reserve, and the
\* statement it executes next.  A worker outside DOMAIN workers is idle.
Idle(w) == w \notin DOMAIN workers

Finish(w) ==
    IF DOMAIN workers \ {w} = {} THEN <<>>
    ELSE [x \in DOMAIN workers \ {w} |-> workers[x]]

\* process_sale_fifo up to the loop: the SELECT and the two checks
StartSale(w, stock_id, quantity_to_sell) ==
    LET available_lots == SaleAvailableLots(stock_lots, stock_id)
        total_available ==
            SeqSum([i \in 1 .. Len(available_lots) |-> available_lots[i].remaining_quantity])
    IN  /\ Idle(w)
        /\ IF available_lots = <<>> \/ total_available < quantity_to_sell
           THEN /\ workers' = workers
                /\ last' = Call("process_sale", stock_id, quantity_to_sell, w, "ValueError")
           ELSE /\ workers' = (w :> [op |-> "process_sale", stock_id |-> stock_id,
                                     quantity |-> quantity_to_sell, option_id |-> 0,
                                     available_lots |-> available_lots, i |-> 1,
                                     remaining |-> quantity_to_sell,
                                     pc |-> "insert"]) @@ workers
                /\ last' = last
        /\ UNCHANGED <<stock_lots, stock_lot_sales, option_reservations,
                       stock_transactions, tx_seq, stocks,
                   priceVars, options, rateVars>>

\* the INSERT INTO stock_lot_sales of the current iteration
SaleInsert(w) ==
    /\ ~Idle(w) /\ workers[w].op = "process_sale" /\ workers[w].pc = "insert"
    /\ LET lot == workers[w].available_lots[workers[w].i]
           quantity_from_lot == QuantityFromLot(workers[w].remaining, lot.remaining_quantity)
       IN  stock_lot_sales' = Append(stock_lot_sales,
                                     [lot_id |-> lot.id,
                                      sale_transaction_id |-> DirectTxId,
                                      quantity_sold |-> quantity_from_lot])
    /\ workers' = [workers EXCEPT ![w].pc = "update"]
    /\ UNCHANGED <<stock_lots, option_reservations, stock_transactions, tx_seq, stocks, last,
                   priceVars, options, rateVars>>

\* the UPDATE stock_lots of the current iteration, computed from the row as it
\* was read, and the end of the iteration
SaleUpdate(w) ==
    /\ ~Idle(w) /\ workers[w].op = "process_sale" /\ workers[w].pc = "update"
    /\ LET lot == workers[w].available_lots[workers[w].i]
           quantity_from_lot == QuantityFromLot(workers[w].remaining, lot.remaining_quantity)
           new_remaining == NewRemaining(lot.remaining_quantity, quantity_from_lot)
           remaining_to_sell == workers[w].remaining - quantity_from_lot
       IN  /\ stock_lots' = [stock_lots EXCEPT
                               ![lot.id].remaining_quantity = new_remaining,
                               ![lot.id].status = NewStatus(new_remaining)]
           /\ IF workers[w].i + 1 > Len(workers[w].available_lots) \/ remaining_to_sell <= 0
              THEN /\ workers' = Finish(w)
                   /\ last' = Call("process_sale", workers[w].stock_id,
                                   workers[w].quantity, w, "ok")
              ELSE /\ workers' = [workers EXCEPT ![w].i = @ + 1,
                                                 ![w].remaining = remaining_to_sell,
                                                 ![w].pc = "insert"]
                   /\ last' = last
    /\ UNCHANGED <<stock_lot_sales, option_reservations, stock_transactions, tx_seq, stocks,
                   priceVars, options, rateVars>>

\* reserve_shares_for_option up to the loop: the SELECT and the two checks
StartReserve(w, option_id, stock_id, shares_needed) ==
    LET available_lots == ReserveAvailableLots(stock_lots, option_reservations, stock_id)
        total_available ==
            SeqSum([i \in 1 .. Len(available_lots) |->
                available_lots[i].remaining_quantity - available_lots[i].already_reserved])
    IN  /\ Idle(w)
        /\ IF available_lots = <<>> \/ total_available < shares_needed
           THEN /\ workers' = workers
                /\ last' = Call("reserve", stock_id, shares_needed, w, "ValueError")
           ELSE /\ workers' = (w :> [op |-> "reserve", stock_id |-> stock_id,
                                     quantity |-> shares_needed, option_id |-> option_id,
                                     available_lots |-> available_lots, i |-> 1,
                                     remaining |-> shares_needed,
                                     pc |-> "insert"]) @@ workers
                /\ last' = last
        /\ UNCHANGED <<stock_lots, stock_lot_sales, option_reservations,
                       stock_transactions, tx_seq, stocks,
                   priceVars, options, rateVars>>

\* the INSERT INTO option_reservations of the current iteration, and its end
ReserveInsert(w) ==
    /\ ~Idle(w) /\ workers[w].op = "reserve" /\ workers[w].pc = "insert"
    /\ LET lot == workers[w].available_lots[workers[w].i]
           available_in_lot == lot.remaining_quantity - lot.already_reserved
           quantity_to_reserve == Min(workers[w].remaining, available_in_lot)
           remaining_to_reserve == workers[w].remaining - quantity_to_reserve
       IN  /\ option_reservations' = Append(option_reservations,
                                            [option_id |-> workers[w].option_id,
                                             lot_id |-> lot.id,
                                             reserved_quantity |-> quantity_to_reserve])
           /\ IF workers[w].i + 1 > Len(workers[w].available_lots) \/ remaining_to_reserve <= 0
              THEN /\ workers' = Finish(w)
                   /\ last' = Call("reserve", workers[w].stock_id,
                                   workers[w].quantity, w, "ok")
              ELSE /\ workers' = [workers EXCEPT ![w].i = @ + 1,
                                                 ![w].remaining = remaining_to_reserve]
                   /\ last' = last
    /\ UNCHANGED <<stock_lots, stock_lot_sales, stock_transactions, tx_seq, stocks,
                   priceVars, options, rateVars>>

\* create_lot_from_purchase up to its INSERT: the SELECT of the next lot number
StartCreateLot(w, stock_id, quantity, purchase_date) ==
    /\ Idle(w)
    /\ workers' = (w :> [op |-> "create_lot", stock_id |-> stock_id,
                         quantity |-> quantity, purchase_date |-> purchase_date,
                         lot_number |-> NextLotNumber(stock_lots, stock_id),
                         pc |-> "insert"]) @@ workers
    /\ UNCHANGED <<stock_lots, stock_lot_sales, option_reservations, stock_transactions,
                   tx_seq, stocks, last, priceVars, options, rateVars>>

\* the INSERT INTO stock_lots, with the lot number that was read
CreateLotInsert(w) ==
    /\ ~Idle(w) /\ workers[w].op = "create_lot" /\ workers[w].pc = "insert"
    /\ Len(stock_lots) < MaxLots
    /\ LET inserted == create_lot_from_purchase(stock_lots, workers[w].stock_id, DirectTxId,
                                                workers[w].quantity, workers[w].purchase_date)
       IN  stock_lots' = [inserted EXCEPT ![Len(inserted)].lot_number = workers[w].lot_number]
    /\ workers' = Finish(w)
    /\ last' = Call("create_lot", workers[w].stock_id, workers[w].quantity,
                    Len(stock_lots) + 1, "ok")
    /\ UNCHANGED <<stock_lot_sales, option_reservations, stock_transactions,
                   tx_seq, stocks, priceVars, options, rateVars>>

\* ------------------------------------------------------ calls on options
AddOption(stock_id, option_type, quantity) ==
    LET r == add_option(options, stocks, stock_id, option_type, quantity)
    IN  /\ Len(options) < MaxOptions
        /\ options' = r.options
        /\ last' = Call("add_option", stock_id, quantity, Len(r.options), r.result)
        /\ UNCHANGED <<stock_lots, stock_lot_sales, option_reservations, stock_transactions,
                       tx_seq, stocks, workers, priceVars, rateVars>>

BuybackOption(option_id) ==
    LET r == close_option(options, option_id, "CLOSED")
    IN  /\ options' = r.options
        /\ last' = Call("buyback_option", 0, 0, option_id, r.result)
        /\ UNCHANGED <<stock_lots, stock_lot_sales, option_reservations, stock_transactions,
                       tx_seq, stocks, workers, priceVars, rateVars>>

ExpireOption(option_id) ==
    LET r == close_option(options, option_id, "EXPIRED")
    IN  /\ options' = r.options
        /\ last' = Call("expire_option", 0, 0, option_id, r.result)
        /\ UNCHANGED <<stock_lots, stock_lot_sales, option_reservations, stock_transactions,
                       tx_seq, stocks, workers, priceVars, rateVars>>

DeleteOption(option_id) ==
    LET r == delete_option(options, option_id)
    IN  /\ options' = r.options
        /\ last' = Call("delete_option", 0, 0, option_id, r.result)
        /\ UNCHANGED <<stock_lots, stock_lot_sales, option_reservations, stock_transactions,
                       tx_seq, stocks, workers, priceVars, rateVars>>

\* ------------------------------------------------------ exchange rates
\* The NBP publishes the table of a working day
Publish(d) ==
    /\ d \notin published /\ ~Weekend(d)
    /\ published' = published \cup {d}
    /\ last' = Call("publish", 0, 0, d, "ok")
    /\ UNCHANGED <<stock_lots, stock_lot_sales, option_reservations, stock_transactions,
                   tx_seq, stocks, workers, priceVars, options, exchange_rates>>

\* A call of NBPService.get_exchange_rate('USD', date_value)
RateFor(date_value, exact, down) ==
    LET r == get_exchange_rate(exchange_rates, published, date_value, exact, down)
    IN  /\ exchange_rates' = r.cache
        /\ last' = [op |-> "rate_for", date |-> date_value, exact |-> exact, down |-> down,
                    result |-> r.result, contacted |-> r.contacted, fetched |-> r.fetched]
        /\ UNCHANGED <<stock_lots, stock_lot_sales, option_reservations, stock_transactions,
                       tx_seq, stocks, workers, priceVars, options, published>>

\* ------------------------------------------------------ calls with money
\* the call record of a call that carries a price and a rate
PricedCall(call, price_usd, usd_pln_rate) ==
    [op |-> call.op, stock_id |-> call.stock_id, quantity |-> call.quantity,
     ref |-> call.ref, result |-> call.result, plan |-> call.plan,
     previewed |-> call.previewed,
     price_usd |-> price_usd, usd_pln_rate |-> usd_pln_rate]

\* create_lot_from_purchase with its price columns
CreateLotPriced(stock_id, quantity, purchase_date, price_usd, usd_pln_rate) ==
    /\ Len(stock_lots) < MaxLots
    /\ stock_lots' = create_lot_from_purchase(stock_lots, stock_id, DirectTxId,
                                              quantity, purchase_date)
    /\ lot_prices' = Append(lot_prices,
                            [purchase_price_usd |-> price_usd,
                             usd_pln_rate |-> usd_pln_rate,
                             purchase_price_pln |-> PurchasePricePln(price_usd, usd_pln_rate)])
    /\ last' = PricedCall(Call("create_lot", stock_id, quantity, Len(stock_lots) + 1, "ok"),
                          price_usd, usd_pln_rate)
    /\ UNCHANGED <<stock_lot_sales, sale_values, option_reservations, stock_transactions,
                   tx_seq, stocks, workers, options, rateVars>>

\* process_sale_fifo with the money columns of the allocations it inserts
ProcessSalePriced(stock_id, quantity_to_sell, sale_price_usd, usd_pln_rate, sale_date) ==
    LET r == process_sale_fifo(stock_lots, stock_lot_sales, stock_id, DirectTxId,
                               quantity_to_sell, NoFault)
        new_sales == SubSeq(r.sales, Len(stock_lot_sales) + 1, Len(r.sales))
    IN  /\ stock_lots' = r.lots
        /\ stock_lot_sales' = r.sales
        /\ sale_values' = sale_values \o SaleValues(new_sales, lot_prices,
                                                    sale_price_usd, usd_pln_rate, sale_date)
        /\ last' = PricedCall(Call("process_sale", stock_id, quantity_to_sell,
                                   DirectTxId, r.result),
                              sale_price_usd, usd_pln_rate)
        /\ UNCHANGED <<lot_prices, option_reservations, stock_transactions, tx_seq,
                       stocks, workers, options, rateVars>>

\* A call of update_lot_rates
UpdateLotRates(lot_id, new_usd_pln_rate) ==
    LET r == update_lot_rates(lot_prices, lot_id, new_usd_pln_rate)
    IN  /\ lot_prices' = r.prices
        /\ last' = Call("update_lot_rates", 0, 0, lot_id, r.result)
        /\ UNCHANGED <<stock_lots, stock_lot_sales, sale_values, option_reservations,
                       stock_transactions, tx_seq, stocks, workers, options, rateVars>>

\* A call of get_tax_summary_by_year
TaxSummary(year) ==
    /\ last' = [op |-> "tax_summary", year |-> year,
                summary |-> get_tax_summary_by_year(stock_lot_sales, sale_values, year)]
    /\ UNCHANGED <<stock_lots, stock_lot_sales, option_reservations, stock_transactions,
                   tx_seq, stocks, workers, priceVars, options, rateVars>>

\* The repository driven with the quantities the entry forms let through
Next ==
    \/ \E s \in StockIds, q \in FormQuantities, d \in Dates : CreateLot(s, q, d)
    \/ \E s \in StockIds, q \in FormSaleQuantities : ProcessSale(s, q)
    \/ \E s \in StockIds, q \in FormSaleQuantities : Preview(s, q)

Spec == Init /\ [][Next]_vars

\* Lots, and reservations called directly with any integer quantity
NextReserveAnyInput ==
    \/ \E s \in StockIds, q \in FormQuantities, d \in Dates : CreateLot(s, q, d)
    \/ \E o \in OpenOptionIds, s \in StockIds, q \in AnyQuantities : Reserve(o, s, q)

SpecReserveAnyInput == Init /\ [][NextReserveAnyInput]_vars

\* Purchases, sales and deletions of transactions through StockRepository
NextPosition ==
    \/ \E s \in StockIds, q \in FormQuantities, d \in FormDates : Buy(s, q, d)
    \/ \E s \in StockIds, q \in FormSaleQuantities, d \in FormDates : Sell(s, q, d)
    \/ \E x \in 1 .. MaxTx : DeleteTransactionCall(x)

SpecPosition == Init /\ [][NextPosition]_vars

\* The repository called directly with any integer quantity
NextAnyInput ==
    \/ \E s \in StockIds, q \in AnyQuantities, d \in Dates : CreateLot(s, q, d)
    \/ \E s \in StockIds, q \in AnySaleQuantities : ProcessSale(s, q)

SpecAnyInput == Init /\ [][NextAnyInput]_vars

\* The application: the transaction handler and the reservation of shares
NextApp ==
    \/ \E s \in StockIds, q \in FormQuantities, d \in FormDates : Buy(s, q, d)
    \/ \E s \in StockIds, q \in FormSaleQuantities, d \in FormDates : Sell(s, q, d)
    \/ \E o \in OpenOptionIds, s \in StockIds, q \in FormQuantities : Reserve(o, s, q)

SpecApp == Init /\ [][NextApp]_vars

\* The lot ledger with reservations: lots, reservations, and sales made by
\* calling process_sale_fifo itself
NextLedger ==
    \/ \E s \in StockIds, q \in FormQuantities, d \in FormDates : CreateLot(s, q, d)
    \/ \E o \in OpenOptionIds, s \in StockIds, q \in FormQuantities : Reserve(o, s, q)
    \/ \E s \in StockIds, q \in FormSaleQuantities : ProcessSale(s, q)

SpecLedger == Init /\ [][NextLedger]_vars

\* The repository when a statement of the FIFO walk can raise
FaultStatements == 1 .. 2 * MaxLots

NextFault ==
    \/ \E s \in StockIds, q \in FormQuantities, d \in FormDates : CreateLot(s, q, d)
    \/ \E s \in StockIds, q \in FormSaleQuantities : ProcessSale(s, q)
    \/ \E s \in StockIds, q \in FormSaleQuantities, f \in FaultStatements :
          ProcessSaleFault(s, q, f)

SpecFault == Init /\ [][NextFault]_vars

\* Two callers whose statements interleave, one selling and one reserving:
\* nothing in the code orders them
NextConc ==
    \/ \E s \in ContendedStockIds, q \in FormQuantities, d \in FormDates : CreateLot(s, q, d)
    \/ \E s \in ContendedStockIds, q \in FormSaleQuantities : StartSale(Seller, s, q)
    \/ SaleInsert(Seller)
    \/ SaleUpdate(Seller)
    \/ \E o \in OpenOptionIds, s \in ContendedStockIds, q \in FormQuantities :
          StartReserve(Reserver, o, s, q)
    \/ ReserveInsert(Reserver)

SpecConc == Init /\ [][NextConc]_vars

\* Purchases and sales with their prices and rates
NextValuation ==
    \/ \E s \in ContendedStockIds, q \in PurchaseQuantities, d \in FormDates,
          p \in PurchasePricesUsd, x \in PurchaseRates : CreateLotPriced(s, q, d, p, x)
    \/ \E s \in ContendedStockIds, q \in SaleQuantities,
          p \in SalePricesUsd, x \in SaleRates, d \in FormSaleDates :
              ProcessSalePriced(s, q, p, x, d)

SpecValuation == Init /\ [][NextValuation]_vars

\* Purchases, sales, and new rates for existing lots
NextRerate ==
    \/ \E s \in ContendedStockIds, q \in PurchaseQuantities, d \in FormDates,
          p \in PurchasePricesUsd, x \in SaleRates : CreateLotPriced(s, q, d, p, x)
    \/ \E s \in ContendedStockIds, q \in SaleQuantities,
          p \in SalePricesUsd, x \in SaleRates, d \in FormSaleDates :
              ProcessSalePriced(s, q, p, x, d)
    \/ \E lot_id \in 1 .. MaxLots, x \in RerateRates : UpdateLotRates(lot_id, x)

SpecRerate == Init /\ [][NextRerate]_vars

\* Purchases, sales over two tax years, and the tax summary of a year
NextTax ==
    \/ \E s \in ContendedStockIds, q \in TaxPurchaseQuantities, d \in FormDates,
          p \in PurchasePricesUsd, x \in SaleRates : CreateLotPriced(s, q, d, p, x)
    \/ \E s \in ContendedStockIds, q \in TaxSaleQuantities,
          p \in TaxSalePricesUsd, x \in SaleRates, d \in SaleDates :
              ProcessSalePriced(s, q, p, x, d)
    \/ \E y \in Years : TaxSummary(y)

SpecTax == Init /\ [][NextTax]_vars

\* Purchases called directly with any quantity and any price, and sales
NextValuationAnyInput ==
    \/ \E s \in ContendedStockIds, q \in AnyQuantities, d \in FormDates,
          p \in AnyPricesUsd, x \in PurchaseRates : CreateLotPriced(s, q, d, p, x)
    \/ \E s \in ContendedStockIds, q \in SaleQuantities,
          p \in SalePricesUsd, x \in SaleRates, d \in FormSaleDates :
              ProcessSalePriced(s, q, p, x, d)

SpecValuationAnyInput == Init /\ [][NextValuationAnyInput]_vars

\* Lots and reservations when an INSERT of the reservation loop can raise
NextReserveFault ==
    \/ \E s \in StockIds, q \in FormQuantities, d \in Dates : CreateLot(s, q, d)
    \/ \E o \in OptionIds, s \in StockIds, q \in FormSaleQuantities : Reserve(o, s, q)
    \/ \E o \in OptionIds, s \in StockIds, q \in FormSaleQuantities, f \in 1 .. MaxLots :
          ReserveFault(o, s, q, f)

SpecReserveFault == Init /\ [][NextReserveFault]_vars

\* Covered calls: shares bought, options written, shares reserved for them,
\* options bought back, expired or deleted
NextOptions ==
    \/ \E s \in ContendedStockIds, q \in PurchaseQuantities, d \in FormDates : Buy(s, q, d)
    \/ \E s \in ContendedStockIds, y \in OptionTypes : AddOption(s, y, 1)
    \/ \E o \in OptionIds, s \in ContendedStockIds, q \in PurchaseQuantities : Reserve(o, s, q)
    \/ \E o \in OptionIds : BuybackOption(o)
    \/ \E o \in OptionIds : ExpireOption(o)
    \/ \E o \in OptionIds : DeleteOption(o)

SpecOptions == Init /\ [][NextOptions]_vars

\* The transaction handler when a statement of the FIFO walk can raise
NextHandlerFault ==
    \/ \E s \in StockIds, q \in FormQuantities, d \in FormDates : Buy(s, q, d)
    \/ \E s \in StockIds, q \in FormSaleQuantities, d \in FormDates : Sell(s, q, d)
    \/ \E s \in StockIds, q \in FormSaleQuantities, d \in FormDates, f \in FaultStatements :
          SellFault(s, q, d, f)

SpecHandlerFault == Init /\ [][NextHandlerFault]_vars

\* The rate service and its source
NextRates ==
    \/ \E d \in PublishDates : Publish(d)
    \/ \E d \in RequestDates, e \in ExactOutcomes, down \in SUBSET FaultDates :
          RateFor(d, e, down)

SpecRates == Init /\ [][NextRates]_vars

\* Two sessions selling, their statements interleaved
NextConcSales ==
    \/ \E s \in ContendedStockIds, q \in FormQuantities, d \in FormDates : CreateLot(s, q, d)
    \/ \E w \in Sellers, s \in ContendedStockIds, q \in FormSaleQuantities : StartSale(w, s, q)
    \/ \E w \in Sellers : SaleInsert(w)
    \/ \E w \in Sellers : SaleUpdate(w)

SpecConcSales == Init /\ [][NextConcSales]_vars

\* Two sessions creating lots, their statements interleaved
NextConcCreate ==
    \/ \E w \in Buyers, s \in StockIds, q \in FormQuantities, d \in Dates :
          StartCreateLot(w, s, q, d)
    \/ \E w \in Buyers : CreateLotInsert(w)

SpecConcCreate == Init /\ [][NextConcCreate]_vars

\* ------------------------------------------------------------ properties
SaleOps == {"process_sale", "SELL"}

\* the allocation rows the step has inserted
NewSales == SubSeq(stock_lot_sales', Len(stock_lot_sales) + 1, Len(stock_lot_sales'))

\* FIFO order as the specification words it: earlier purchase date first,
\* lower lot number first when the dates tie
Precedes(la, lb) ==
    \/ la.purchase_date < lb.purchase_date
    \/ la.purchase_date = lb.purchase_date /\ la.lot_number < lb.lot_number

\* C1: conservation: every lot's original quantity equals its remaining quantity
\* plus the quantities of all sale allocations recorded against it.
Conservation ==
    \A i \in DOMAIN stock_lots :
        stock_lots[i].quantity =
            stock_lots[i].remaining_quantity + SoldFrom(stock_lot_sales, i)

ConservationWitness ==
    /\ last.op = "process_sale" /\ last.result = "ok"
    /\ \E i \in DOMAIN stock_lots :
        /\ stock_lots[i].remaining_quantity > 0
        /\ SoldFrom(stock_lot_sales, i) > 0
    /\ \E i \in DOMAIN stock_lots :
        /\ stock_lots[i].remaining_quantity = 0
        /\ SoldFrom(stock_lot_sales, i) > 0

\* C6: FIFO ordering: in a successful sale a lot receives an allocation only if
\* every open lot of the security that precedes it by (purchase_date, lot_number)
\* is sold out after the call.
FifoOrdering ==
    [][(last'.op \in SaleOps /\ last'.result = "ok") =>
        \A k \in DOMAIN NewSales : \A b \in DOMAIN stock_lots :
            LET a == NewSales[k].lot_id IN
            (/\ stock_lots[b].stock_id = stock_lots[a].stock_id
             /\ stock_lots[b].remaining_quantity > 0
             /\ Precedes(stock_lots[b], stock_lots[a]))
            => stock_lots'[b].remaining_quantity = 0]_vars

\* two lots of 2 bought on the same day, 3 sold: 2 from lot number 1, 1 from lot number 2
FifoOrderingWitness ==
    /\ last.op = "process_sale" /\ last.result = "ok" /\ last.quantity = 3
    /\ Len(stock_lots) = 2
    /\ stock_lots[1].stock_id = stock_lots[2].stock_id
    /\ stock_lots[1].purchase_date = stock_lots[2].purchase_date
    /\ stock_lots[1].quantity = 2 /\ stock_lots[2].quantity = 2
    /\ stock_lots[1].lot_number = 1 /\ stock_lots[2].lot_number = 2
    /\ stock_lot_sales = <<[lot_id |-> 1, sale_transaction_id |-> DirectTxId, quantity_sold |-> 2],
                           [lot_id |-> 2, sale_transaction_id |-> DirectTxId, quantity_sold |-> 1]>>
    /\ stock_lots[1].remaining_quantity = 0 /\ stock_lots[2].remaining_quantity = 1

\* C8: lot quantity bounds: every lot has 0 <= remaining_quantity <= quantity.
LotQuantityBounds ==
    \A i \in DOMAIN stock_lots :
        /\ 0 <= stock_lots[i].remaining_quantity
        /\ stock_lots[i].remaining_quantity <= stock_lots[i].quantity

\* C9: the stored status of every lot is the status its quantities give:
\* CLOSED at remaining 0, PARTIAL below the original quantity, OPEN otherwise.
StoredStatusConsistent ==
    \A i \in DOMAIN stock_lots : stock_lots[i].status = CalculatedStatus(stock_lots[i])

\* the allocations inserted by the step are the previewed ones, lot by lot in
\* order, and each lot is left with the previewed remaining quantity
AllocationsMatch(plan) ==
    /\ Len(NewSales) = Len(plan)
    /\ \A k \in DOMAIN plan :
        /\ NewSales[k].lot_id = plan[k].lot_id
        /\ NewSales[k].quantity_sold = plan[k].quantity_to_sell
        /\ stock_lots'[plan[k].lot_id].remaining_quantity = plan[k].remaining_after_sale

\* C10 as claimed: for every quantity, the sale that immediately follows its
\* preview allocates exactly what was previewed.
PreviewMatchesEverySale ==
    [][(last'.op \in SaleOps /\ last'.previewed) => AllocationsMatch(last'.plan)]_vars

\* C10 amended: every sale that succeeds right after its preview allocates
\* exactly what was previewed, lot by lot, and leaves the previewed remainders.
PreviewMatchesSuccessfulSale ==
    [][(last'.op \in SaleOps /\ last'.previewed /\ last'.result = "ok")
        => AllocationsMatch(last'.plan)]_vars

PreviewMatchesWitness ==
    /\ last.op = "process_sale" /\ last.previewed /\ last.result = "ok"
    /\ Len(last.plan) = 2
    /\ last.plan[2].remaining_after_sale > 0
    /\ stock_lots[last.plan[1].lot_id].lot_number > stock_lots[last.plan[2].lot_id].lot_number

\* C2: reservation invariant: on every lot the reserved quantities sum to at
\* most the lot's remaining quantity.
ReservationInvariant ==
    \A i \in DOMAIN stock_lots :
        ReservedOn(option_reservations, i) <= stock_lots[i].remaining_quantity

\* sellable_quantity as the specification defines it: the remaining quantity of
\* the security's open lots minus the reservations on those lots
SellableQuantity(stock_id) ==
    SeqSum([i \in 1 .. Len(stock_lots) |->
        IF stock_lots[i].stock_id = stock_id /\ stock_lots[i].remaining_quantity > 0
        THEN stock_lots[i].remaining_quantity - ReservedOn(option_reservations, i)
        ELSE 0])

\* C3: a sale of more than the sellable quantity fails with the insufficient
\* shares error and sells nothing.
SaleRespectsReservations ==
    [][(last'.op \in SaleOps /\ last'.quantity > SellableQuantity(last'.stock_id))
        => (/\ last'.result = "ValueError"
            /\ stock_lots' = stock_lots
            /\ stock_lot_sales' = stock_lot_sales)]_vars

\* C4: a sale that fails for insufficient shares leaves every lot, every sale
\* allocation and every reservation as it was.
FailedSaleChangesNothing ==
    [][(last'.op \in SaleOps /\ last'.result = "ValueError")
        => (/\ stock_lots' = stock_lots
            /\ stock_lot_sales' = stock_lot_sales
            /\ option_reservations' = option_reservations)]_vars

\* a handled sale refused because of a reservation although the lots hold enough
FailedSaleWitness ==
    /\ last.op = "SELL" /\ last.result = "ValueError"
    /\ Len(option_reservations) > 0
    /\ last.quantity > SellableQuantity(last.stock_id)
    /\ last.quantity <= SeqSum([i \in 1 .. Len(stock_lots) |->
                            IF stock_lots[i].stock_id = last.stock_id
                            THEN stock_lots[i].remaining_quantity ELSE 0])

\* C5: a sale that fails part-way through the FIFO walk leaves no allocation
\* of its own behind and every lot as it was before the call.
FailedWalkAllOrNothing ==
    [][(last'.op \in SaleOps /\ last'.result = "DatabaseError")
        => (stock_lots' = stock_lots /\ stock_lot_sales' = stock_lot_sales)]_vars

\* C7: a sale and a reservation on the same security are never both between
\* their first read and their last write.
MutualExclusion ==
    \A a \in DOMAIN workers, b \in DOMAIN workers :
        ~(/\ workers[a].op = "process_sale"
          /\ workers[b].op = "reserve"
          /\ workers[a].stock_id = workers[b].stock_id)

\* C11: tax floor: no allocation carries a negative tax, and an allocation sold
\* at a loss or at break-even carries no tax.
TaxFloor ==
    \A k \in DOMAIN sale_values :
        /\ sale_values[k].tax_due_pln >= 0
        /\ sale_values[k].gain_loss_pln <= 0 => sale_values[k].tax_due_pln = 0

\* an allocation sold at a loss
TaxFloorWitness ==
    \E k \in DOMAIN sale_values :
        sale_values[k].gain_loss_pln < 0 /\ sale_values[k].tax_due_pln = 0

\* C12: every allocation of a successful sale is valued against the prices of
\* its own lot: gain in USD, gain in PLN at the sale's rate, tax of 19% of a
\* positive PLN gain.
ValuationPerAllocation ==
    [][(last'.op \in SaleOps /\ last'.result = "ok") =>
        \A k \in Len(stock_lot_sales) + 1 .. Len(stock_lot_sales') :
            LET consumed == stock_lot_sales'[k].quantity_sold
                lot == lot_prices[stock_lot_sales'[k].lot_id]
                usd == (last'.price_usd - lot.purchase_price_usd) * consumed
                pln == (last'.price_usd * last'.usd_pln_rate - lot.purchase_price_pln) * consumed
            IN  /\ k \in DOMAIN sale_values'
                /\ sale_values'[k].gain_loss_usd = usd
                /\ sale_values'[k].gain_loss_pln = pln
                /\ sale_values'[k].tax_due_pln = (IF pln * 19 > 0 THEN pln * 19 ELSE 0)
       ]_vars

\* the worked example: 100 bought at $50.00 and 4.00, 60 sold at $60.00 and 4.10
ValuationWitness ==
    /\ last.op = "process_sale" /\ last.result = "ok" /\ last.quantity = 60
    /\ Len(stock_lots) = 1 /\ Len(stock_lot_sales) = 1
    /\ lot_prices[1].purchase_price_usd = 5000
    /\ lot_prices[1].purchase_price_pln = 2000000
    /\ stock_lot_sales[1].quantity_sold = 60
    /\ sale_values[1].gain_loss_usd = 60000
    /\ sale_values[1].gain_loss_pln = 27600000
    /\ sale_values[1].tax_due_pln = 524400000
    /\ stock_lots[1].remaining_quantity = 40
    /\ stock_lots[1].status = "PARTIAL"

\* C13: lot numbering: within a security the lot numbers are 1, 2, 3, ... in
\* creation order, hence unique and strictly increasing.
LotNumbering ==
    \A i \in DOMAIN stock_lots :
        stock_lots[i].lot_number =
            Cardinality({j \in 1 .. i : stock_lots[j].stock_id = stock_lots[i].stock_id})

\* C14: create_lot with a quantity or a price that is not positive fails with
\* the invalid input error and creates or changes no lot.
InvalidInputRejected ==
    [][(last'.op = "create_lot" /\ (last'.quantity <= 0 \/ last'.price_usd <= 0))
        => (/\ last'.result = "InvalidInput"
            /\ stock_lots' = stock_lots
            /\ lot_prices' = lot_prices)]_vars

\* available-for-reservation as the specification defines it: the remaining
\* quantity of the security's lots minus the reservations on them
ReservableQuantity(stock_id) ==
    SeqSum([i \in 1 .. Len(stock_lots) |->
        IF stock_lots[i].stock_id = stock_id
        THEN stock_lots[i].remaining_quantity - ReservedOn(option_reservations, i)
        ELSE 0])

\* C15: reserve is atomic on failure: asked for more than is available it fails
\* with the insufficient shares error, and a reserve call that fails, at the
\* check or part-way through its inserts, leaves the reservations as they were.
ReserveAtomicOnFailure ==
    [][last'.op = "reserve" =>
        /\ last'.quantity > ReservableQuantity(last'.stock_id) => last'.result = "ValueError"
        /\ last'.result # "ok" => option_reservations' = option_reservations
      ]_vars

\* the operations at which an option's reservations are to be released
CloseOps == {"buyback_option", "expire_option", "delete_option"}

\* C16: once an option is closed, expired or deleted its reservations are
\* released: no reservation refers to it, and the reservations of the other
\* options and every lot are as before.
ReleaseOnClose ==
    [][(last'.op \in CloseOps /\ last'.result = TRUE) =>
        /\ \A k \in DOMAIN option_reservations' :
              option_reservations'[k].option_id # last'.ref
        /\ \A k \in DOMAIN option_reservations :
              option_reservations[k].option_id # last'.ref =>
                  \E j \in DOMAIN option_reservations' :
                      option_reservations'[j] = option_reservations[k]
        /\ stock_lots' = stock_lots
      ]_vars

\* C17: a handled SELL that fails, at the availability check or inside the
\* FIFO walk, leaves no transaction row of its own and the stored quantity of
\* the security as it was; every SELL row that exists has its full quantity
\* allocated.
SellHandlerRollback ==
    [][/\ (last'.op = "SELL" /\ last'.result # "ok") =>
             /\ \A x \in stock_transactions' : x.id # last'.ref
             /\ stocks' = stocks
       /\ \A x \in stock_transactions' :
             x.transaction_type = "SELL" =>
                 SeqSum([k \in 1 .. Len(stock_lot_sales') |->
                     IF stock_lot_sales'[k].sale_transaction_id = x.id
                     THEN stock_lot_sales'[k].quantity_sold ELSE 0]) = x.quantity
      ]_vars

\* a handled SELL whose walk failed after it had inserted an allocation
SellHandlerRollbackWitness ==
    /\ last.op = "SELL" /\ last.result = "DatabaseError"
    /\ \E k \in DOMAIN stock_lot_sales : stock_lot_sales[k].sale_transaction_id = last.ref
    /\ \E x \in stock_transactions : x.transaction_type = "SELL"

\* C18: whenever rate_for obtains a rate from the source for a day d (the day
\* asked for or a day of the backward walk), the cache holds that rate under d
\* when the call returns and the call returns it; and a lookup for a day the
\* cache holds returns the cached rate without contacting the source.
FetchedRatesCached ==
    [][last'.op = "rate_for" =>
        /\ \A d \in last'.fetched :
              /\ get_cached_rate(exchange_rates', d) = SourceRate(d)
              /\ last'.result = SourceRate(d)
        /\ get_cached_rate(exchange_rates, last'.date) # None =>
              /\ last'.result = get_cached_rate(exchange_rates, last'.date)
              /\ last'.contacted = {}
              /\ exchange_rates' = exchange_rates
      ]_vars

\* a lookup served, without a request, from a rate an earlier call fetched
FetchedRatesCachedWitness ==
    /\ last.op = "rate_for" /\ last.contacted = {}
    /\ last.date # InitDate /\ last.result = SourceRate(last.date)

\* C19: when the request for the day asked for ends in anything but a rate or
\* a not-found answer, and the cache holds a rate dated at or before that day,
\* rate_for returns the most recent such rate.
FallbackOnFailure ==
    [][(/\ last'.op = "rate_for"
        /\ get_cached_rate(exchange_rates, last'.date) = None
        /\ last'.exact \in {"status", "error"}
        /\ \E d \in DOMAIN exchange_rates : d <= last'.date) =>
            last'.result = get_last_available_rate(exchange_rates, last'.date)
      ]_vars

\* no stage can resolve a rate for date_value: the cache has no row at or before
\* it, the request for the day gives no rate, and no request of the walk does
NothingResolvable(cache, pub, date_value, exact, down) ==
    /\ \A d \in DOMAIN cache : d > date_value
    /\ ~(exact = "answer" /\ date_value \in pub)
    /\ \A d \in (date_value - MaxDays) .. (date_value - 1) :
          ~(~Weekend(d) /\ d \in pub /\ d \notin down)

\* C20: when no stage can resolve a rate, rate_for returns no rate; and a call
\* that returns no rate leaves the cache as it was.
RateUnavailable ==
    [][last'.op = "rate_for" =>
        /\ NothingResolvable(exchange_rates, published, last'.date, last'.exact, last'.down) =>
              last'.result = None
        /\ last'.result = None => exchange_rates' = exchange_rates
      ]_vars

\* a walk that asked the source for every working day of its range and found
\* nothing, although an older table exists
RateUnavailableWitness ==
    /\ last.op = "rate_for" /\ last.result = None /\ last.exact = "answer"
    /\ Cardinality(last.contacted) > 1
    /\ published # {}

\* the requested days that are a Saturday
Saturdays == {d \in RequestDates : d % 7 = 5}

SoldInYear(year) == {k \in DOMAIN sale_values : Year(sale_values[k].sale_date) = year}

BuyOps == {"create_lot", "BUY"}

SaleFullySatisfied ==
    [][(last'.op \in SaleOps /\ last'.result = "ok") =>
        /\ SeqSum([k \in DOMAIN NewSales |-> NewSales[k].quantity_sold]) = last'.quantity
        /\ \A k \in DOMAIN NewSales :
              /\ NewSales[k].quantity_sold >= 1
              /\ NewSales[k].quantity_sold <= stock_lots[NewSales[k].lot_id].remaining_quantity
              /\ \A j \in DOMAIN NewSales : NewSales[j].lot_id = NewSales[k].lot_id => j = k
      ]_vars

\* the reservation rows the step has inserted
NewReservations ==
    SubSeq(option_reservations', Len(option_reservations) + 1, Len(option_reservations'))

\* C25: a successful reserve(option, security, n) walks the lots of the
\* security in (purchase_date, lot_number) order and inserts one row per lot
\* touched, of min(still needed, remaining_quantity - already reserved)
\* shares; the rows sum to n; a lot is touched only when every earlier lot has
\* no unreserved share left afterwards.
ReserveDistributesFifo ==
    [][(last'.op = "reserve" /\ last'.result = "ok") =>
        /\ SeqSum([k \in DOMAIN NewReservations |-> NewReservations[k].reserved_quantity])
              = last'.quantity
        /\ \A k \in DOMAIN NewReservations :
              LET row == NewReservations[k]
                  lot == stock_lots[row.lot_id]
                  still_needed ==
                      last'.quantity - SeqSum([j \in 1 .. k - 1 |->
                                                  NewReservations[j].reserved_quantity])
              IN  /\ row.option_id = last'.ref
                  /\ lot.stock_id = last'.stock_id
                  /\ row.reserved_quantity >= 1
                  /\ row.reserved_quantity =
                        Min(still_needed,
                            lot.remaining_quantity - ReservedOn(option_reservations, row.lot_id))
                  /\ \A j \in DOMAIN NewReservations :
                        j < k => Precedes(stock_lots[NewReservations[j].lot_id], lot)
                  /\ \A i \in DOMAIN stock_lots :
                        (stock_lots[i].stock_id = lot.stock_id /\ Precedes(stock_lots[i], lot)) =>
                            stock_lots[i].remaining_quantity
                                - ReservedOn(option_reservations', i) <= 0
      ]_vars

\* C26: when the source has no table for the day asked for and the walk
\* fetches the rate of an earlier day d, the rate is cached under d only: the
\* cache gains that one row and none for the day asked for, so the same lookup
\* made again asks the source again, walks again and returns the same rate.
BackwardWalkCaching ==
    [][(last'.op = "rate_for" /\ last'.fetched # {} /\ last'.date \notin last'.fetched) =>
        /\ DOMAIN exchange_rates' = DOMAIN exchange_rates \cup last'.fetched
        /\ \A x \in DOMAIN exchange_rates : exchange_rates'[x] = exchange_rates[x]
        /\ \A d \in last'.fetched : d < last'.date /\ exchange_rates'[d] = last'.result
        /\ last'.date \notin DOMAIN exchange_rates'
        /\ LET again == get_exchange_rate(exchange_rates', published', last'.date,
                                          "answer", last'.down)
           IN  /\ again.result = last'.result
               /\ last'.date \in again.contacted
               /\ again.fetched = {}
               /\ again.cache = exchange_rates'
      ]_vars

\* the lookup made again after a walk had fetched an earlier day: the source
\* is asked for the day again and the rate comes from the row of that walk
BackwardWalkCachingWitness ==
    /\ last.op = "rate_for" /\ last.exact = "answer" /\ last.fetched = {}
    /\ last.date \in last.contacted /\ last.date \notin DOMAIN exchange_rates
    /\ \E d \in DOMAIN exchange_rates :
          d < last.date /\ d # InitDate /\ last.result = exchange_rates[d]
    /\ (last.date - 1) \notin DOMAIN exchange_rates

\* the days of the walk's window that can give a rate: a working day among the
\* MaxDays days before date_value whose rate is cached, or whose table is
\* published and whose request does not fail
WalkCandidates(cache, pub, date_value, down) ==
    {d \in (date_value - MaxDays) .. (date_value - 1) :
        /\ d % 7 \notin {5, 6}
        /\ d \in DOMAIN cache \/ (d \in pub /\ d \notin down)}

\* C27: after a not-found answer the walk goes back a day at a time for at
\* most ten days, asks neither cache nor source for a Saturday or Sunday,
\* returns the rate of the nearest earlier working day of the window that has
\* a cached or a source rate, and no rate when there is none; failing
\* requests neither end the walk early nor take it beyond the window.
BoundedWalk ==
    [][(/\ last'.op = "rate_for" /\ last'.exact = "answer"
        /\ last'.date \notin DOMAIN exchange_rates /\ last'.date \notin published) =>
        LET candidates == WalkCandidates(exchange_rates, published, last'.date, last'.down)
            nearest == CHOOSE d \in candidates : \A x \in candidates : x <= d
        IN  /\ \A d \in last'.contacted \ {last'.date} :
                  /\ d % 7 \notin {5, 6}
                  /\ last'.date - MaxDays <= d /\ d < last'.date
            /\ Cardinality(last'.contacted \ {last'.date}) <= 10
            /\ candidates = {} => last'.result = None /\ exchange_rates' = exchange_rates
            /\ candidates # {} =>
                  /\ last'.result = (IF nearest \in DOMAIN exchange_rates
                                     THEN exchange_rates[nearest] ELSE SourceRate(nearest))
                  /\ \A d \in last'.contacted \ {last'.date} : d >= nearest
      ]_vars

\* a walk that passed a cached Sunday and a failing request and took the rate
\* of an earlier working day
BoundedWalkWitness ==
    /\ last.op = "rate_for" /\ last.exact = "answer" /\ last.date > InitDate
    /\ last.down \cap last.contacted \cap published # {}
    /\ last.result # None /\ last.result # SampleRate

\* C28: the stored quantity of every security is the sum of the
\* remaining_quantity of its lots, and every lot and every sale allocation
\* refers to a transaction row that exists.
PositionAgreesWithLedger ==
    /\ \A s \in StockIds :
          stocks[s] = SeqSum([i \in DOMAIN stock_lots |->
                                 IF stock_lots[i].stock_id = s
                                 THEN stock_lots[i].remaining_quantity ELSE 0])
    /\ \A i \in DOMAIN stock_lots :
          \E x \in stock_transactions : x.id = stock_lots[i].transaction_id
    /\ \A k \in DOMAIN stock_lot_sales :
          \E x \in stock_transactions : x.id = stock_lot_sales[k].sale_transaction_id

NoLostUpdate ==
    workers = <<>> =>
        /\ \A i \in DOMAIN stock_lots :
              stock_lots[i].quantity =
                  stock_lots[i].remaining_quantity + SoldFrom(stock_lot_sales, i)
        /\ \A s \in StockIds :
              SeqSum([k \in DOMAIN stock_lot_sales |->
                         IF stock_lots[stock_lot_sales[k].lot_id].stock_id = s
                         THEN stock_lot_sales[k].quantity_sold ELSE 0])
                <= SeqSum([i \in DOMAIN stock_lots |->
                              IF stock_lots[i].stock_id = s THEN stock_lots[i].quantity ELSE 0])

====
